---- MODULE Spec2Model ----
(***************************************************************************)
(* The clubnet schema (backend/api/models.py) as a state machine.          *)
(*                                                                         *)
(* The state is the content of the fourteen tables the module declares.    *)
(* Rows are inserted one at a time (Model.objects.create) and deleted one  *)
(* at a time (instance.delete()); an insertion is accepted when the        *)
(* declared constraints hold (foreign keys name existing rows, one-to-one  *)
(* fields are unique, a choices field holds one of its choices), and a     *)
(* deletion follows the on_delete rule of every ForeignKey and             *)
(* OneToOneField that points at a collected row.                           *)
(*                                                                         *)
(* Free-text columns that no relation or constraint depends on (Club.name, *)
(* the description and content columns, ClubRole.privilege) are not part   *)
(* of the state; Project.name is kept.                                     *)
(***************************************************************************)
EXTENDS Integers, FiniteSets, Sequences, TLC

\* ---------------------------------------------------------------- bounds
MaxRows == 2            \* rows ever inserted into one table
MaxConversations == 3   \* rows ever inserted into the Conversation table
MaxSteps == 2           \* insertions and clock ticks in a fresh database
MaxSeededCreates == 2   \* rows inserted into a populated database

\* ------------------------------------------------------------- constants
NULL == 0
NOT_GIVEN == "<not given>"

\* The errors an insertion is refused with; a unique violation names its
\* column.
FOREIGN_KEY == "IntegrityError: FOREIGN KEY constraint failed"
UNIQUE_CHANNEL_CLUB == "IntegrityError: UNIQUE constraint failed: channel.club"
UNIQUE_REPLY_PARENT ==
    "IntegrityError: UNIQUE constraint failed: feedbackreply.parent"
VALIDATION == "ValidationError"

STATUS_CHOICES ==
    { <<"PD", "Pending">>, <<"AC", "Accepted">>,
      <<"RE", "Rejected">>, <<"CN", "Cancelled">> }

StatusCodes == { ch[1] : ch \in STATUS_CHOICES }

StatusDisplay(code) == (CHOOSE ch \in STATUS_CHOICES : ch[1] = code)[2]

StatusDefault == "PD"

ClosedDefault == NULL

ParentDefault == NULL

ProjectNames == { "alpha", "beta" }

Tables ==
    { "users", "clubs", "requests", "roles", "memberships", "projects",
      "clubprojects", "projectmemberships", "channels", "subscriptions",
      "posts", "conversations", "feedbacks", "replies" }

Ids == 1..MaxRows

ConversationIds == 1..MaxConversations

Cap(t) == IF t = "conversations" THEN MaxConversations ELSE MaxRows

VARIABLES
    users,              \* User: set of ids
    clubs,              \* Club: set of ids
    requests,           \* ClubMembershipRequest rows
    roles,              \* ClubRole rows
    memberships,        \* ClubMembership rows
    projects,           \* Project rows
    clubprojects,       \* ClubProject rows
    projectmemberships, \* ProjectMembership rows
    channels,           \* Channel rows
    subscriptions,      \* ChannelSubscription rows
    posts,              \* Post rows
    conversations,      \* Conversation rows
    feedbacks,          \* Feedback rows
    replies,            \* FeedbackReply rows
    seq,                \* last primary key handed out, per table
    now,                \* the clock read by auto_now_add
    budget,             \* insertions and clock ticks left
    last                \* the last operation and its outcome

db == << users, clubs, requests, roles, memberships, projects, clubprojects,
         projectmemberships, channels, subscriptions, posts, conversations,
         feedbacks, replies >>

vars == << users, clubs, requests, roles, memberships, projects, clubprojects,
           projectmemberships, channels, subscriptions, posts, conversations,
           feedbacks, replies, seq, now, budget, last >>

PKs(rows) == { r.id : r \in rows }

Row(rows, id) == CHOOSE r \in rows : r.id = id

\* ------------------------------------------- relations and their on_delete
RequestsOfUsers(U) == { r \in requests : r.user \in U }

RequestsOfClubs(C) == { r \in requests : r.club \in C }

RolesOfClubs(C) == { r \in roles : r.club \in C }

MembershipsOfUsers(U) == { m \in memberships : m.user \in U }

\* ClubMembership.club_role without the cascade.
MembershipsOfRoles_NoCascade(R) == {}

MembershipsOfRoles(R) == { m \in memberships : m.club_role \in R }

LeadProjects(U) == { p \in projects : p.leader \in U }

ClubProjectsOfClubs(C) == { cp \in clubprojects : cp.club \in C }

ClubProjectsOfProjects(P) == { cp \in clubprojects : cp.project \in P }

ProjectMembershipsOfUsers(U) == { m \in projectmemberships : m.user \in U }

ProjectMembershipsOfProjects(P) ==
    { m \in projectmemberships : m.project \in P }

\* Channel.club without the cascade.
ChannelsOfClubs_NoCascade(C) == {}

ChannelsOfClubs(C) == { ch \in channels : ch.club \in C }

SubscriptionsOfUsers(U) == { s \in subscriptions : s.user \in U }

SubscriptionsOfChannels(Ch) == { s \in subscriptions : s.channel \in Ch }

PostsOfChannels(Ch) == { p \in posts : p.channel \in Ch }

ConversationsOfChannels(Ch) == { c \in conversations : c.channel \in Ch }

\* Conversation.author without the cascade.
ConversationsOfUsers_NoCascade(U) == {}

ConversationsOfUsers(U) == { c \in conversations : c.author \in U }

ChildConversations(Cv) == { c \in conversations : c.parent \in Cv }

FeedbacksOfClubs(C) == { f \in feedbacks : f.club \in C }

FeedbacksOfUsers(U) == { f \in feedbacks : f.author \in U }

RepliesOfFeedbacks(F) == { r \in replies : r.parent \in F }

\* The collection stopping at the children of the seed rows.
ConversationClosure_OneLevel(S) == S \cup PKs(ChildConversations(S))

\* Conversation.parent is a CASCADE reference to Conversation itself: the
\* collection follows it until no new row is found.
RECURSIVE ConversationClosure(_)
ConversationClosure(S) ==
    LET T == S \cup PKs(ChildConversations(S))
    IN IF T = S THEN S ELSE ConversationClosure(T)

\* ClubProject and ProjectMembership cascading on into Project.
CollectedProjects_ThroughJoin(seedProjects, C, U) ==
    seedProjects \cup { cp.project : cp \in ClubProjectsOfClubs(C) }
        \cup { m.project : m \in ProjectMembershipsOfUsers(U) }

\* The projects a deletion collects: no reference to Project's owners
\* cascades onto Project, so only the rows handed to delete().
CollectedProjects(seedProjects, C, U) == seedProjects

NoSeed ==
    [ users |-> {}, clubs |-> {}, requests |-> {}, roles |-> {},
      memberships |-> {}, projects |-> {}, clubprojects |-> {},
      projectmemberships |-> {}, channels |-> {}, subscriptions |-> {},
      posts |-> {}, conversations |-> {}, feedbacks |-> {}, replies |-> {} ]

\* The primary keys, per table, that deleting the seed rows deletes.
Collect(seed) ==
    LET U  == seed.users
        C  == seed.clubs
        P  == CollectedProjects(seed.projects, C, U)
        R  == seed.roles \cup PKs(RolesOfClubs(C))
        Ch == seed.channels \cup PKs(ChannelsOfClubs(C))
        Cv == ConversationClosure(seed.conversations
                  \cup PKs(ConversationsOfChannels(Ch))
                  \cup PKs(ConversationsOfUsers(U)))
        F  == seed.feedbacks \cup PKs(FeedbacksOfClubs(C))
                  \cup PKs(FeedbacksOfUsers(U))
    IN  [ users |-> U,
          clubs |-> C,
          requests |-> seed.requests \cup PKs(RequestsOfUsers(U))
                          \cup PKs(RequestsOfClubs(C)),
          roles |-> R,
          memberships |-> seed.memberships \cup PKs(MembershipsOfUsers(U))
                          \cup PKs(MembershipsOfRoles(R)),
          projects |-> P,
          clubprojects |-> seed.clubprojects \cup PKs(ClubProjectsOfClubs(C))
                          \cup PKs(ClubProjectsOfProjects(P)),
          projectmemberships |-> seed.projectmemberships
                          \cup PKs(ProjectMembershipsOfUsers(U))
                          \cup PKs(ProjectMembershipsOfProjects(P)),
          channels |-> Ch,
          subscriptions |-> seed.subscriptions
                          \cup PKs(SubscriptionsOfUsers(U))
                          \cup PKs(SubscriptionsOfChannels(Ch)),
          posts |-> seed.posts \cup PKs(PostsOfChannels(Ch)),
          conversations |-> Cv,
          feedbacks |-> F,
          replies |-> seed.replies \cup PKs(RepliesOfFeedbacks(F)) ]

\* Project.leader without the protection.
Protected_Never(col) == FALSE

\* on_delete=PROTECT on Project.leader: the collected users that a Project
\* row still names as its leader block the deletion.
Protected(col) == LeadProjects(col.users) # {}

Without(rows, ids) == { r \in rows : r.id \notin ids }

\* What the caller of an operation sees: the call, the primary key it created
\* or deleted, "ok" or the error raised, and the number of rows delete()
\* reports as deleted.
Outcome(op, id, result, deleted) ==
    [ op |-> op, id |-> id, result |-> result, deleted |-> deleted ]

Count(col) ==
    Cardinality(col.users) + Cardinality(col.clubs)
    + Cardinality(col.requests) + Cardinality(col.roles)
    + Cardinality(col.memberships) + Cardinality(col.projects)
    + Cardinality(col.clubprojects) + Cardinality(col.projectmemberships)
    + Cardinality(col.channels) + Cardinality(col.subscriptions)
    + Cardinality(col.posts) + Cardinality(col.conversations)
    + Cardinality(col.feedbacks) + Cardinality(col.replies)

\* instance.delete(): collect, refuse if protected, else remove every
\* collected row in one transaction.
Delete(op, id, seed) ==
    LET col == Collect(seed)
    IN  IF Protected(col)
        THEN /\ last' = Outcome(op, id, "ProtectedError", 0)
             /\ UNCHANGED << db, seq, now, budget >>
        ELSE /\ users' = users \ col.users
             /\ clubs' = clubs \ col.clubs
             /\ requests' = Without(requests, col.requests)
             /\ roles' = Without(roles, col.roles)
             /\ memberships' = Without(memberships, col.memberships)
             /\ projects' = Without(projects, col.projects)
             /\ clubprojects' = Without(clubprojects, col.clubprojects)
             /\ projectmemberships' =
                    Without(projectmemberships, col.projectmemberships)
             /\ channels' = Without(channels, col.channels)
             /\ subscriptions' = Without(subscriptions, col.subscriptions)
             /\ posts' = Without(posts, col.posts)
             /\ conversations' = Without(conversations, col.conversations)
             /\ feedbacks' = Without(feedbacks, col.feedbacks)
             /\ replies' = Without(replies, col.replies)
             /\ last' = Outcome(op, id, "ok", Count(col))
             /\ UNCHANGED << seq, now, budget >>


\* -------------------------------------------------------------- insertion
CanCreate(t) == seq[t] < Cap(t) /\ budget > 0

NextId(t) == seq[t] + 1

Inserted(op, t) ==
    /\ seq' = [seq EXCEPT ![t] = @ + 1]
    /\ budget' = budget - 1
    /\ last' = Outcome(op, NextId(t), "ok", 0)

\* A refused insertion shows its caller the error and nothing else.
Rejected(result) ==
    /\ last' = Outcome("create", NULL, result, 0)
    /\ UNCHANGED << db, seq, now, budget >>

\* The status column without its choices.
ValidStatus_Any(s) == TRUE

\* choices=STATUS_CHOICES: a status outside the choices is not valid.
ValidStatus(s) == s \in StatusCodes

\* default='PD': the status of a request created without one.
StatusOrDefault(s) == IF s = NOT_GIVEN THEN StatusDefault ELSE s

\* A one-to-one column declared as a plain foreign key.
Unique_NotEnforced(rows, field, value) == TRUE

\* OneToOneField: the column is unique.
Unique(rows, field, value) == \A r \in rows : r[field] # value

CreateUser ==
    /\ CanCreate("users")
    /\ users' = users \cup { NextId("users") }
    /\ Inserted("CreateUser", "users")
    /\ UNCHANGED << clubs, requests, roles, memberships, projects,
                   clubprojects, projectmemberships, channels,
                   subscriptions, posts, conversations, feedbacks,
                   replies, now >>

CreateClub ==
    /\ CanCreate("clubs")
    /\ clubs' = clubs \cup { NextId("clubs") }
    /\ Inserted("CreateClub", "clubs")
    /\ UNCHANGED << users, requests, roles, memberships, projects,
                   clubprojects, projectmemberships, channels,
                   subscriptions, posts, conversations, feedbacks,
                   replies, now >>

CreateClubMembershipRequest(u, c, s) ==
    IF u \in users /\ c \in clubs /\ ValidStatus(StatusOrDefault(s))
    THEN /\ CanCreate("requests")
         /\ requests' = requests \cup
             { [ id |-> NextId("requests"), user |-> u, club |-> c,
               initiated |-> now, status |-> StatusOrDefault(s),
               closed |-> ClosedDefault ] }
         /\ Inserted("CreateClubMembershipRequest", "requests")
         /\ UNCHANGED << users, clubs, roles, memberships, projects,
                        clubprojects, projectmemberships, channels,
                        subscriptions, posts, conversations, feedbacks,
                        replies, now >>
    ELSE Rejected(IF ValidStatus(StatusOrDefault(s))
             THEN FOREIGN_KEY ELSE VALIDATION)

CreateClubRole(c) ==
    IF c \in clubs
    THEN /\ CanCreate("roles")
         /\ roles' = roles \cup
             { [ id |-> NextId("roles"), club |-> c ] }
         /\ Inserted("CreateClubRole", "roles")
         /\ UNCHANGED << users, clubs, requests, memberships, projects,
                        clubprojects, projectmemberships, channels,
                        subscriptions, posts, conversations, feedbacks,
                        replies, now >>
    ELSE Rejected(FOREIGN_KEY)

CreateClubMembership(u, r) ==
    IF u \in users /\ r \in PKs(roles)
    THEN /\ CanCreate("memberships")
         /\ memberships' = memberships \cup
             { [ id |-> NextId("memberships"), user |-> u, club_role |-> r,
               joined |-> now ] }
         /\ Inserted("CreateClubMembership", "memberships")
         /\ UNCHANGED << users, clubs, requests, roles, projects, clubprojects,
                        projectmemberships, channels, subscriptions, posts,
                        conversations, feedbacks, replies, now >>
    ELSE Rejected(FOREIGN_KEY)

CreateProject(n, u) ==
    IF u \in users
    THEN /\ CanCreate("projects")
         /\ projects' = projects \cup
             { [ id |-> NextId("projects"), name |-> n, started |-> now,
               closed |-> ClosedDefault, leader |-> u ] }
         /\ Inserted("CreateProject", "projects")
         /\ UNCHANGED << users, clubs, requests, roles, memberships,
                        clubprojects, projectmemberships, channels,
                        subscriptions, posts, conversations, feedbacks,
                        replies, now >>
    ELSE Rejected(FOREIGN_KEY)

CreateClubProject(c, p) ==
    IF c \in clubs /\ p \in PKs(projects)
    THEN /\ CanCreate("clubprojects")
         /\ clubprojects' = clubprojects \cup
             { [ id |-> NextId("clubprojects"), club |-> c, project |-> p ] }
         /\ Inserted("CreateClubProject", "clubprojects")
         /\ UNCHANGED << users, clubs, requests, roles, memberships, projects,
                        projectmemberships, channels, subscriptions, posts,
                        conversations, feedbacks, replies, now >>
    ELSE Rejected(FOREIGN_KEY)

CreateProjectMembership(u, p) ==
    IF u \in users /\ p \in PKs(projects)
    THEN /\ CanCreate("projectmemberships")
         /\ projectmemberships' = projectmemberships \cup
             { [ id |-> NextId("projectmemberships"), user |-> u, project |-> p,
               joined |-> now ] }
         /\ Inserted("CreateProjectMembership", "projectmemberships")
         /\ UNCHANGED << users, clubs, requests, roles, memberships, projects,
                        clubprojects, channels, subscriptions, posts,
                        conversations, feedbacks, replies, now >>
    ELSE Rejected(FOREIGN_KEY)

CreateChannel(c) ==
    IF c \in clubs /\ Unique(channels, "club", c)
    THEN /\ CanCreate("channels")
         /\ channels' = channels \cup
             { [ id |-> NextId("channels"), club |-> c ] }
         /\ Inserted("CreateChannel", "channels")
         /\ UNCHANGED << users, clubs, requests, roles, memberships, projects,
                        clubprojects, projectmemberships, subscriptions, posts,
                        conversations, feedbacks, replies, now >>
    ELSE Rejected(IF c \in clubs THEN UNIQUE_CHANNEL_CLUB
                  ELSE FOREIGN_KEY)

CreateChannelSubscription(u, ch) ==
    IF u \in users /\ ch \in PKs(channels)
    THEN /\ CanCreate("subscriptions")
         /\ subscriptions' = subscriptions \cup
             { [ id |-> NextId("subscriptions"), user |-> u, channel |-> ch,
               joined |-> now ] }
         /\ Inserted("CreateChannelSubscription", "subscriptions")
         /\ UNCHANGED << users, clubs, requests, roles, memberships, projects,
                        clubprojects, projectmemberships, channels, posts,
                        conversations, feedbacks, replies, now >>
    ELSE Rejected(FOREIGN_KEY)

CreatePost(ch) ==
    IF ch \in PKs(channels)
    THEN /\ CanCreate("posts")
         /\ posts' = posts \cup
             { [ id |-> NextId("posts"), channel |-> ch, created |-> now ] }
         /\ Inserted("CreatePost", "posts")
         /\ UNCHANGED << users, clubs, requests, roles, memberships, projects,
                        clubprojects, projectmemberships, channels,
                        subscriptions, conversations, feedbacks, replies, now >>
    ELSE Rejected(FOREIGN_KEY)

\* null=True, default=None: a conversation may have no parent; a parent that
\* is given is any existing Conversation.
ValidParent(par) == par = ParentDefault \/ par \in PKs(conversations)

CreateConversation(ch, u, par) ==
    IF ch \in PKs(channels) /\ u \in users /\ ValidParent(par)
    THEN /\ CanCreate("conversations")
         /\ conversations' = conversations \cup
             { [ id |-> NextId("conversations"), created |-> now, channel |-> ch,
               author |-> u, parent |-> par ] }
         /\ Inserted("CreateConversation", "conversations")
         /\ UNCHANGED << users, clubs, requests, roles, memberships, projects,
                        clubprojects, projectmemberships, channels,
                        subscriptions, posts, feedbacks, replies, now >>
    ELSE Rejected(FOREIGN_KEY)

CreateFeedback(c, u) ==
    IF c \in clubs /\ u \in users
    THEN /\ CanCreate("feedbacks")
         /\ feedbacks' = feedbacks \cup
             { [ id |-> NextId("feedbacks"), created |-> now, club |-> c,
               author |-> u ] }
         /\ Inserted("CreateFeedback", "feedbacks")
         /\ UNCHANGED << users, clubs, requests, roles, memberships, projects,
                        clubprojects, projectmemberships, channels,
                        subscriptions, posts, conversations, replies, now >>
    ELSE Rejected(FOREIGN_KEY)

CreateFeedbackReply(f) ==
    IF f \in PKs(feedbacks) /\ Unique(replies, "parent", f)
    THEN /\ CanCreate("replies")
         /\ replies' = replies \cup
             { [ id |-> NextId("replies"), created |-> now, parent |-> f ] }
         /\ Inserted("CreateFeedbackReply", "replies")
         /\ UNCHANGED << users, clubs, requests, roles, memberships, projects,
                        clubprojects, projectmemberships, channels,
                        subscriptions, posts, conversations, feedbacks, now >>
    ELSE Rejected(IF f \in PKs(feedbacks)
             THEN UNIQUE_REPLY_PARENT ELSE FOREIGN_KEY)


\* --------------------------------------------------------------- deletion
DeleteUser(u) ==
    /\ u \in users
    /\ Delete("DeleteUser", u, [NoSeed EXCEPT !.users = { u }])

DeleteClub(c) ==
    /\ c \in clubs
    /\ Delete("DeleteClub", c, [NoSeed EXCEPT !.clubs = { c }])

DeleteClubMembershipRequest(r) ==
    /\ r \in PKs(requests)
    /\ Delete("DeleteClubMembershipRequest", r, [NoSeed EXCEPT !.requests = { r }])

DeleteClubRole(r) ==
    /\ r \in PKs(roles)
    /\ Delete("DeleteClubRole", r, [NoSeed EXCEPT !.roles = { r }])

DeleteClubMembership(m) ==
    /\ m \in PKs(memberships)
    /\ Delete("DeleteClubMembership", m, [NoSeed EXCEPT !.memberships = { m }])

DeleteProject(p) ==
    /\ p \in PKs(projects)
    /\ Delete("DeleteProject", p, [NoSeed EXCEPT !.projects = { p }])

DeleteClubProject(cp) ==
    /\ cp \in PKs(clubprojects)
    /\ Delete("DeleteClubProject", cp, [NoSeed EXCEPT !.clubprojects = { cp }])

DeleteProjectMembership(m) ==
    /\ m \in PKs(projectmemberships)
    /\ Delete("DeleteProjectMembership", m, [NoSeed EXCEPT !.projectmemberships = { m }])

DeleteChannel(ch) ==
    /\ ch \in PKs(channels)
    /\ Delete("DeleteChannel", ch, [NoSeed EXCEPT !.channels = { ch }])

DeleteChannelSubscription(sb) ==
    /\ sb \in PKs(subscriptions)
    /\ Delete("DeleteChannelSubscription", sb, [NoSeed EXCEPT !.subscriptions = { sb }])

DeletePost(p) ==
    /\ p \in PKs(posts)
    /\ Delete("DeletePost", p, [NoSeed EXCEPT !.posts = { p }])

DeleteConversation(cv) ==
    /\ cv \in PKs(conversations)
    /\ Delete("DeleteConversation", cv, [NoSeed EXCEPT !.conversations = { cv }])

DeleteFeedback(f) ==
    /\ f \in PKs(feedbacks)
    /\ Delete("DeleteFeedback", f, [NoSeed EXCEPT !.feedbacks = { f }])

DeleteFeedbackReply(fr) ==
    /\ fr \in PKs(replies)
    /\ Delete("DeleteFeedbackReply", fr, [NoSeed EXCEPT !.replies = { fr }])

\* ------------------------------------------------------------------ clock
Tick ==
    /\ budget > 0
    /\ now' = now + 1
    /\ budget' = budget - 1
    /\ last' = Outcome("Tick", NULL, "ok", 0)
    /\ UNCHANGED << db, seq >>

\* ----------------------------------------------------------- finalisation
\* The handlers that address a request and close a project are not part of
\* models.py; they follow the lifecycle the specification gives: a Pending
\* request becomes Accepted, Rejected or Cancelled and is stamped closed, an
\* open project is stamped closed.
TerminalStatuses == StatusCodes \ { StatusDefault }

\* A request addressed again after it has been addressed.
FinalizeRequest_Again(r, s) ==
    /\ r \in PKs(requests)
    /\ s \in TerminalStatuses
    /\ requests' = Without(requests, { r }) \cup
           { [ Row(requests, r) EXCEPT !.status = s, !.closed = now ] }
    /\ last' = Outcome("FinalizeRequest", r, "ok", 0)
    /\ UNCHANGED << users, clubs, roles, memberships, projects,
                   clubprojects, projectmemberships, channels,
                   subscriptions, posts, conversations, feedbacks,
                   replies, seq, now, budget >>

FinalizeRequest(r, s) ==
    /\ r \in PKs(requests)
    /\ s \in TerminalStatuses
    /\ Row(requests, r).status = StatusDefault
    /\ requests' = Without(requests, { r }) \cup
           { [ Row(requests, r) EXCEPT !.status = s, !.closed = now ] }
    /\ last' = Outcome("FinalizeRequest", r, "ok", 0)
    /\ UNCHANGED << users, clubs, roles, memberships, projects,
                   clubprojects, projectmemberships, channels,
                   subscriptions, posts, conversations, feedbacks,
                   replies, seq, now, budget >>

CloseProject(p) ==
    /\ p \in PKs(projects)
    /\ Row(projects, p).closed = NULL
    /\ projects' = Without(projects, { p }) \cup
           { [ Row(projects, p) EXCEPT !.closed = now ] }
    /\ last' = Outcome("CloseProject", p, "ok", 0)
    /\ UNCHANGED << users, clubs, requests, roles, memberships,
                   clubprojects, projectmemberships, channels,
                   subscriptions, posts, conversations, feedbacks,
                   replies, seq, now, budget >>

\* ---------------------------------------------------------- specification
StatusInputs == StatusCodes \cup { NOT_GIVEN, "XX" }

ParentInputs == ConversationIds \cup { ParentDefault }

\* A fresh database: empty, or with its first user, its first club or both
\* already registered.
Init ==
    /\ users \in { {}, { 1 } }
    /\ clubs \in { {}, { 1 } }
    /\ requests = {}
    /\ roles = {}
    /\ memberships = {}
    /\ projects = {}
    /\ clubprojects = {}
    /\ projectmemberships = {}
    /\ channels = {}
    /\ subscriptions = {}
    /\ posts = {}
    /\ conversations = {}
    /\ feedbacks = {}
    /\ replies = {}
    /\ seq = [ t \in Tables |->
                 IF t = "users" THEN Cardinality(users)
                 ELSE IF t = "clubs" THEN Cardinality(clubs) ELSE 0 ]
    /\ now = 1
    /\ budget = MaxSteps
    /\ last = Outcome("Init", NULL, "ok", 0)

Next ==
    \/ CreateUser
    \/ CreateClub
    \/ \E u \in Ids, c \in Ids, s \in StatusInputs :
           CreateClubMembershipRequest(u, c, s)
    \/ \E c \in Ids : CreateClubRole(c)
    \/ \E u \in Ids, r \in Ids : CreateClubMembership(u, r)
    \/ \E n \in ProjectNames, u \in Ids : CreateProject(n, u)
    \/ \E c \in Ids, p \in Ids : CreateClubProject(c, p)
    \/ \E u \in Ids, p \in Ids : CreateProjectMembership(u, p)
    \/ \E c \in Ids : CreateChannel(c)
    \/ \E u \in Ids, ch \in Ids : CreateChannelSubscription(u, ch)
    \/ \E ch \in Ids : CreatePost(ch)
    \/ \E ch \in Ids, u \in Ids, par \in ParentInputs :
           CreateConversation(ch, u, par)
    \/ \E c \in Ids, u \in Ids : CreateFeedback(c, u)
    \/ \E f \in Ids : CreateFeedbackReply(f)
    \/ \E u \in Ids : DeleteUser(u)
    \/ \E c \in Ids : DeleteClub(c)
    \/ \E r \in Ids : DeleteClubMembershipRequest(r)
    \/ \E r \in Ids : DeleteClubRole(r)
    \/ \E m \in Ids : DeleteClubMembership(m)
    \/ \E p \in Ids : DeleteProject(p)
    \/ \E cp \in Ids : DeleteClubProject(cp)
    \/ \E m \in Ids : DeleteProjectMembership(m)
    \/ \E ch \in Ids : DeleteChannel(ch)
    \/ \E sb \in Ids : DeleteChannelSubscription(sb)
    \/ \E p \in Ids : DeletePost(p)
    \/ \E cv \in ConversationIds : DeleteConversation(cv)
    \/ \E f \in Ids : DeleteFeedback(f)
    \/ \E fr \in Ids : DeleteFeedbackReply(fr)
    \/ \E r \in Ids, s \in StatusCodes : FinalizeRequest(r, s)
    \/ \E p \in Ids : CloseProject(p)
    \/ Tick

Spec == Init /\ [][Next]_vars

\* A populated database: club 1 with one row of each kind that hangs off a
\* club, all of them owned by user 1, club 2 with its channel only, and
\* project 1 of club 1, led by user 2 with user 1 as its member.
InitSeeded ==
    /\ users = { 1, 2 }
    /\ clubs = { 1, 2 }
    /\ requests = { [ id |-> 1, user |-> 1, club |-> 1, initiated |-> 1,
                      status |-> StatusDefault, closed |-> ClosedDefault ] }
    /\ roles = { [ id |-> 1, club |-> 1 ] }
    /\ memberships = { [ id |-> 1, user |-> 1, club_role |-> 1,
                         joined |-> 1 ] }
    /\ projects = { [ id |-> 1, name |-> "alpha", started |-> 1,
                      closed |-> ClosedDefault, leader |-> 2 ] }
    /\ clubprojects = { [ id |-> 1, club |-> 1, project |-> 1 ] }
    /\ projectmemberships = { [ id |-> 1, user |-> 1, project |-> 1,
                                joined |-> 1 ] }
    /\ channels = { [ id |-> 1, club |-> 1 ], [ id |-> 2, club |-> 2 ] }
    /\ subscriptions = { [ id |-> 1, user |-> 1, channel |-> 1,
                           joined |-> 1 ] }
    /\ posts = { [ id |-> 1, channel |-> 1, created |-> 1 ] }
    /\ conversations = { [ id |-> 1, created |-> 1, channel |-> 1,
                           author |-> 1, parent |-> ParentDefault ] }
    /\ feedbacks = { [ id |-> 1, created |-> 1, club |-> 1, author |-> 1 ] }
    /\ replies = { [ id |-> 1, created |-> 1, parent |-> 1 ] }
    /\ seq = [ t \in Tables |->
                 IF t \in { "users", "clubs", "channels" } THEN 2 ELSE 1 ]
    /\ now = 1
    /\ budget = MaxSeededCreates
    /\ last = Outcome("Init", NULL, "ok", 0)

NextSeeded ==
    \/ \E ch \in Ids, u \in Ids, par \in ParentInputs :
           CreateConversation(ch, u, par)
    \/ \E u \in Ids : DeleteUser(u)
    \/ \E c \in Ids : DeleteClub(c)
    \/ \E p \in Ids : DeleteProject(p)
    \/ \E ch \in Ids : DeleteChannel(ch)
    \/ \E cv \in ConversationIds : DeleteConversation(cv)

SpecSeeded == InitSeeded /\ [][NextSeeded]_vars

\* The feedback desk of the populated database: feedback is filed, answered
\* and withdrawn.
NextFeedback ==
    \/ \E c \in Ids, u \in Ids : CreateFeedback(c, u)
    \/ \E f \in Ids : CreateFeedbackReply(f)
    \/ \E f \in Ids : DeleteFeedback(f)
    \/ \E r \in Ids : DeleteFeedbackReply(r)
    \/ Tick

SpecFeedback == InitSeeded /\ [][NextFeedback]_vars

\* ================================================================ properties
\* The conversations above a conversation: its parent, the parent's parent
\* and so on, read off the rows of one state.
RECURSIVE AncestorsIn(_, _, _)
AncestorsIn(rows, id, fuel) ==
    LET r == Row(rows, id)
    IN  IF fuel = 0 \/ r.parent = NULL \/ r.parent \notin PKs(rows)
        THEN {}
        ELSE { r.parent } \cup AncestorsIn(rows, r.parent, fuel - 1)

Ancestors(id) == AncestorsIn(conversations, id, Cardinality(conversations))

\* C1: deleting a club that exists succeeds, and afterwards no role, request,
\* channel or feedback of the club is left, nor any membership of its roles,
\* any subscription or post of its channel, any conversation of its channel
\* or below such a conversation at any depth, any reply to its feedback.
C1_DeleteClubCascades ==
    [][ last'.op = "DeleteClub" =>
          LET c   == last'.id
              rls == { r.id : r \in { x \in roles : x.club = c } }
              chs == { ch.id : ch \in { x \in channels : x.club = c } }
              fbs == { f.id : f \in { x \in feedbacks : x.club = c } }
              own == { cv.id : cv \in { x \in conversations :
                                          x.channel \in chs } }
              cvs == { cv.id : cv \in { x \in conversations :
                          x.id \in own \/ Ancestors(x.id) \cap own # {} } }
          IN  /\ c \in clubs
              /\ last'.result = "ok"
              /\ c \notin clubs'
              /\ \A r \in roles' : r.club # c
              /\ \A r \in requests' : r.club # c
              /\ \A ch \in channels' : ch.club # c
              /\ \A f \in feedbacks' : f.club # c
              /\ \A m \in memberships' : m.club_role \notin rls
              /\ \A sb \in subscriptions' : sb.channel \notin chs
              /\ \A p \in posts' : p.channel \notin chs
              /\ \A cv \in conversations' :
                     cv.id \notin cvs /\ cv.channel \notin chs
              /\ \A fr \in replies' : fr.parent \notin fbs
      ]_vars

\* A club was deleted together with twelve rows that hung off it, among them
\* two conversations added to the populated database.
C1_Witness ==
    /\ last.op = "DeleteClub"
    /\ last.result = "ok"
    /\ last.deleted >= 13
    /\ seq["conversations"] = 3

\* C2: deleting a user whom a project names as its leader fails and leaves
\* every table as it was; deleting a user no project names as its leader
\* succeeds and removes the user.
C2_LeaderDeleteProtected ==
    [][ last'.op = "DeleteUser" =>
          LET u == last'.id
          IN  /\ u \in users
              /\ IF \E p \in projects : p.leader = u
                 THEN /\ last'.result = "ProtectedError"
                      /\ db' = db
                      /\ u \in users'
                 ELSE /\ last'.result = "ok"
                      /\ u \notin users'
      ]_vars

\* The deletion of a leader was refused while the leader owned a membership
\* request, which is still there.
C2_Witness ==
    /\ last.op = "DeleteUser"
    /\ last.result = "ProtectedError"
    /\ last.id \in users
    /\ \E p \in projects : p.leader = last.id
    /\ \E r \in requests : r.user = last.id

\* C3: after the successful deletion of a user no membership request, club
\* membership, project membership, channel subscription, conversation or
\* feedback names that user. (Post has no column that names a user.)
C3_DeleteUserCascades ==
    (last.op = "DeleteUser" /\ last.result = "ok") =>
        LET u == last.id
        IN  /\ u \notin users
            /\ \A r \in requests : r.user # u
            /\ \A m \in memberships : m.user # u
            /\ \A m \in projectmemberships : m.user # u
            /\ \A sb \in subscriptions : sb.user # u
            /\ \A cv \in conversations : cv.author # u
            /\ \A f \in feedbacks : f.author # u

\* A user who led no project was deleted together with a request, a club
\* membership, a project membership, a subscription, a conversation, a
\* feedback and its reply.
C3_Witness ==
    /\ last.op = "DeleteUser"
    /\ last.result = "ok"
    /\ last.deleted >= 8

\* C4: deleting a conversation removes that conversation and exactly the
\* conversations below it, whoever wrote them; every other conversation is
\* left as it was.
C4_DeleteConversationSubtree ==
    [][ last'.op = "DeleteConversation" =>
          LET d == last'.id
          IN  /\ last'.result = "ok"
              /\ conversations' =
                     { cv \in conversations :
                           cv.id # d /\ d \notin Ancestors(cv.id) }
      ]_vars

\* A conversation was deleted with a child of another author below it while
\* a conversation that is not below it is still there.
C4_Witness ==
    /\ last.op = "DeleteConversation"
    /\ last.result = "ok"
    /\ last.deleted = 2
    /\ last.id = 2
    /\ seq["conversations"] = 3
    /\ conversations # {}

\* No feedback has two replies.
AtMostOneReply ==
    \A f \in feedbacks :
        Cardinality({ fr \in replies : fr.parent = f.id }) <= 1

\* C5: a feedback never has more than one reply: creating a reply for a
\* feedback that already has one is rejected and changes nothing.
C5_OneReplyPerFeedback ==
    [][ /\ AtMostOneReply
        /\ AtMostOneReply'
        /\ \A f \in Ids :
               ((\E fr \in replies : fr.parent = f) /\ CreateFeedbackReply(f))
                   => /\ last'.result = UNIQUE_REPLY_PARENT
                      /\ db' = db
      ]_vars

\* A second reply to a feedback was refused; the first one is there.
C5_Witness ==
    /\ last.result = UNIQUE_REPLY_PARENT
    /\ \E f \in feedbacks :
           Cardinality({ fr \in replies : fr.parent = f.id }) = 1

\* Every row holds one of the four status codes, shown as one of the four
\* status names.
FourStatuses(rows) ==
    \A r \in rows :
        /\ r.status \in { "PD", "AC", "RE", "CN" }
        /\ StatusDisplay(r.status) \in
               { "Pending", "Accepted", "Rejected", "Cancelled" }

SameStamp(old, new, field) ==
    \A a \in old, b \in new : a.id = b.id => a[field] = b[field]

\* closed, where it differs between the two rows, went from null to a value.
ClosedOnce(a, b) == a.closed # b.closed => (a.closed = NULL /\ b.closed # NULL)

\* C7: the status of a request changes only from Pending to Accepted,
\* Rejected or Cancelled; closed, of a request or a project, changes only
\* from null to a value; initiated, started, joined and created never change.
C7_Lifecycle ==
    [][ /\ \A a \in requests, b \in requests' :
               a.id = b.id =>
                   /\ a.status # b.status =>
                          (a.status = "PD" /\ b.status \in { "AC", "RE", "CN" })
                   /\ ClosedOnce(a, b)
        /\ \A a \in projects, b \in projects' :
               a.id = b.id => ClosedOnce(a, b)
        /\ SameStamp(requests, requests', "initiated")
        /\ SameStamp(projects, projects', "started")
        /\ SameStamp(memberships, memberships', "joined")
        /\ SameStamp(projectmemberships, projectmemberships', "joined")
        /\ SameStamp(subscriptions, subscriptions', "joined")
        /\ SameStamp(posts, posts', "created")
        /\ SameStamp(conversations, conversations', "created")
        /\ SameStamp(feedbacks, feedbacks', "created")
        /\ SameStamp(replies, replies', "created")
      ]_vars

\* A request was addressed after the clock had moved on from its creation.
C7_Witness ==
    /\ last.op = "FinalizeRequest"
    /\ \E r \in requests :
           /\ r.id = last.id
           /\ r.status \in { "AC", "RE", "CN" }
           /\ r.closed # NULL
           /\ r.closed > r.initiated

\* C8: deleting a club or a user leaves every Project row as it was; what a
\* successful deletion removes from the join tables is the ClubProject rows
\* of the club, or the ProjectMembership rows of the user, and nothing else.
C8_ProjectsOutliveClubsAndMembers ==
    [][ last'.op \in { "DeleteClub", "DeleteUser" } =>
          /\ projects' = projects
          /\ (last'.op = "DeleteClub" /\ last'.result = "ok") =>
                 /\ clubprojects' =
                        { cp \in clubprojects : cp.club # last'.id }
                 /\ projectmemberships' = projectmemberships
          /\ (last'.op = "DeleteUser" /\ last'.result = "ok") =>
                 /\ projectmemberships' =
                        { m \in projectmemberships : m.user # last'.id }
                 /\ clubprojects' = clubprojects
      ]_vars

\* The only member of a project was deleted after the project's only club:
\* the project is still there, with no club and no member.
C8_Witness ==
    /\ last.op = "DeleteUser"
    /\ last.result = "ok"
    /\ last.deleted >= 2
    /\ seq["clubprojects"] >= 1
    /\ seq["projectmemberships"] >= 1
    /\ \E p \in projects :
           /\ \A cp \in clubprojects : cp.project # p.id
           /\ \A m \in projectmemberships : m.project # p.id

\* C9: every conversation that has a parent is in the channel of its parent.
C9_ParentInSameChannel ==
    \A cv \in conversations :
        cv.parent # NULL =>
            \A par \in conversations :
                par.id = cv.parent => par.channel = cv.channel

\* Every reference of every row names a row that exists.
NoDangling ==
    /\ \A r \in requests : r.user \in users /\ r.club \in clubs
    /\ \A r \in roles : r.club \in clubs
    /\ \A m \in memberships : m.user \in users /\ m.club_role \in PKs(roles)
    /\ \A p \in projects : p.leader \in users
    /\ \A cp \in clubprojects :
           cp.club \in clubs /\ cp.project \in PKs(projects)
    /\ \A m \in projectmemberships :
           m.user \in users /\ m.project \in PKs(projects)
    /\ \A ch \in channels : ch.club \in clubs
    /\ \A sb \in subscriptions :
           sb.user \in users /\ sb.channel \in PKs(channels)
    /\ \A p \in posts : p.channel \in PKs(channels)
    /\ \A cv \in conversations :
           /\ cv.channel \in PKs(channels)
           /\ cv.author \in users
           /\ cv.parent # NULL => cv.parent \in PKs(conversations)
    /\ \A f \in feedbacks : f.club \in clubs /\ f.author \in users
    /\ \A fr \in replies : fr.parent \in PKs(feedbacks)

\* Every row a step adds names only rows that were there before the step.
NewRowsNameOldRows ==
    /\ \A r \in requests' \ requests : r.user \in users /\ r.club \in clubs
    /\ \A r \in roles' \ roles : r.club \in clubs
    /\ \A m \in memberships' \ memberships :
           m.user \in users /\ m.club_role \in PKs(roles)
    /\ \A p \in projects' \ projects : p.leader \in users
    /\ \A cp \in clubprojects' \ clubprojects :
           cp.club \in clubs /\ cp.project \in PKs(projects)
    /\ \A m \in projectmemberships' \ projectmemberships :
           m.user \in users /\ m.project \in PKs(projects)
    /\ \A ch \in channels' \ channels : ch.club \in clubs
    /\ \A sb \in subscriptions' \ subscriptions :
           sb.user \in users /\ sb.channel \in PKs(channels)
    /\ \A p \in posts' \ posts : p.channel \in PKs(channels)
    /\ \A cv \in conversations' \ conversations :
           /\ cv.channel \in PKs(channels)
           /\ cv.author \in users
           /\ cv.parent # NULL => cv.parent \in PKs(conversations)
    /\ \A f \in feedbacks' \ feedbacks : f.club \in clubs /\ f.author \in users
    /\ \A fr \in replies' \ replies : fr.parent \in PKs(feedbacks)

====
